---- MODULE Spec2Model ----
(***************************************************************************)
(* A model of diesel's SQLite storage backend for paged memory:            *)
(*   src/diesel/src/sqlite/connection/vfs.rs     PagesVfs, Connection,     *)
(*                                               LockState                 *)
(*   src/diesel/src/sqlite/connection/memory.rs  Memory, VectorMemory      *)
(*                                                                         *)
(* Part 1 is the lock protocol of Connection::lock over the LockState that *)
(* every Connection of one PagesVfs shares behind Arc<Mutex<..>>.          *)
(***************************************************************************)
EXTENDS Integers, Sequences, FiniteSets, TLC

\* Number of Connection values PagesVfs::open may have handed out at once.
NConn == 3

VARIABLES
    live,             \* the Connections that exist (opened and not yet dropped)
    lock,             \* Connection.lock of each Connection
    lock_state,       \* the shared LockState: [read, write]
    mutex_poisoned,   \* the Mutex around LockState was poisoned by a panic
    overflow_checks,  \* the build panics on integer overflow (debug) or wraps
    last,             \* what the most recent call was and what it returned
    usize_bits,       \* the width of usize on the build's target
    memory,           \* the VectorMemory every Connection shares
    aborted,          \* the process was aborted by a failed allocation
    mem_last,         \* the most recent call on the memory or on a file
    thr               \* the call each thread is making on the VectorMemory

vars == <<live, lock, lock_state, mutex_poisoned, overflow_checks, last,
          usize_bits, memory, aborted, mem_last, thr>>

lock_vars == <<live, lock, lock_state, mutex_poisoned, last>>
mem_vars == <<memory, aborted, mem_last, thr>>

Conns == 1..NConn

(***************************************************************************)
(* sqlite_vfs::LockKind, an ordered enum.                                  *)
(***************************************************************************)
LockKind == {"None", "Shared", "Reserved", "Pending", "Exclusive"}

LockOrd(k) ==
    CASE k = "None" -> 0
      [] k = "Shared" -> 1
      [] k = "Reserved" -> 2
      [] k = "Pending" -> 3
      [] k = "Exclusive" -> 4

\* Option<T>: None is the empty sequence, Some(x) the sequence of x alone.
OptNone == <<>>
Some(x) == <<x>>
is_some(o) == o # OptNone

(***************************************************************************)
(* LockState.read is a usize.  It is held here as the integer of least     *)
(* magnitude congruent to it modulo 2^w, so that usize::MAX is -1 and      *)
(* wrapping +1 / -1 are the integer +1 / -1.  With overflow checks (a      *)
(* debug build) `read -= 1` at 0 panics instead; the panic unwinds through *)
(* the MutexGuard and poisons the Mutex.                                   *)
(***************************************************************************)
usize_sub_overflows(r, d) == r >= 0 /\ r < d
usize_add_overflows(r, d) == r < 0 /\ r + d >= 0

\* What a call of Connection::lock leaves behind.
Ret(l, ls, ok) == [lock |-> l, lock_state |-> ls, ret |-> ok, panic |-> FALSE]
Panic(l, ls) == [lock |-> l, lock_state |-> ls, ret |-> FALSE, panic |-> TRUE]

\* `lock_state.read -= 1; self.lock = l; ok`
DecRead(self_lock, ls, l, write, ok) ==
    IF overflow_checks /\ usize_sub_overflows(ls.read, 1)
    THEN Panic(self_lock, ls)
    ELSE Ret(l, [read |-> ls.read - 1, write |-> write], ok)

\* lock_None releasing a reader slot from every level at or above Shared.
lock_None_AlwaysDec(self_lock, ls) ==
    IF LockOrd(self_lock) >= LockOrd("Shared")
    THEN DecRead(self_lock, [ls EXCEPT !.write = OptNone], "None", OptNone, TRUE)
    ELSE Ret("None", ls, TRUE)

\* LockKind::None arm
lock_None(self_lock, ls) ==
    IF self_lock = "Shared"
    THEN DecRead(self_lock, ls, "None", ls.write, TRUE)
    ELSE IF LockOrd(self_lock) > LockOrd("Shared")
    THEN Ret("None", [ls EXCEPT !.write = OptNone], TRUE)
    ELSE Ret("None", ls, TRUE)

\* lock_Shared without the test for another connection's exclusive intent.
lock_Shared_NoIntentCheck(self_lock, ls) ==
    Ret("Shared",
        [read |-> ls.read + 1,
         write |-> IF LockOrd(self_lock) > LockOrd("Shared")
                   THEN OptNone ELSE ls.write],
        TRUE)

\* lock_Shared refusing on a reserved intent in place of an exclusive one.
lock_Shared_ChecksReserved(self_lock, ls) ==
    IF ls.write = Some(FALSE) /\ LockOrd(self_lock) <= LockOrd("Shared")
    THEN Ret(self_lock, ls, FALSE)
    ELSE IF overflow_checks /\ usize_add_overflows(ls.read, 1)
    THEN Panic(self_lock, ls)
    ELSE Ret("Shared",
             [read |-> ls.read + 1,
              write |-> IF LockOrd(self_lock) > LockOrd("Shared")
                        THEN OptNone ELSE ls.write],
             TRUE)

\* lock_Shared counting the reader before it refuses.
lock_Shared_CountsRefused(self_lock, ls) ==
    IF ls.write = Some(TRUE) /\ LockOrd(self_lock) <= LockOrd("Shared")
    THEN Ret(self_lock, [ls EXCEPT !.read = @ + 1], FALSE)
    ELSE IF overflow_checks /\ usize_add_overflows(ls.read, 1)
    THEN Panic(self_lock, ls)
    ELSE Ret("Shared",
             [read |-> ls.read + 1,
              write |-> IF LockOrd(self_lock) > LockOrd("Shared")
                        THEN OptNone ELSE ls.write],
             TRUE)

\* LockKind::Shared arm
lock_Shared(self_lock, ls) ==
    IF ls.write = Some(TRUE) /\ LockOrd(self_lock) <= LockOrd("Shared")
    THEN Ret(self_lock, ls, FALSE)
    ELSE IF overflow_checks /\ usize_add_overflows(ls.read, 1)
    THEN Panic(self_lock, ls)
    ELSE Ret("Shared",
             [read |-> ls.read + 1,
              write |-> IF LockOrd(self_lock) > LockOrd("Shared")
                        THEN OptNone ELSE ls.write],
             TRUE)

\* lock_Reserved without the test for an existing writer intent.
lock_Reserved_NoIntentCheck(self_lock, ls) ==
    IF self_lock # "Shared"
    THEN Ret(self_lock, ls, FALSE)
    ELSE DecRead(self_lock, ls, "Reserved", Some(FALSE), TRUE)

\* lock_Reserved granting from None as well as from Shared.
lock_Reserved_FromNone(self_lock, ls) ==
    IF is_some(ls.write) \/ LockOrd(self_lock) > LockOrd("Shared")
    THEN Ret(self_lock, ls, FALSE)
    ELSE IF self_lock = "Shared"
    THEN DecRead(self_lock, ls, "Reserved", Some(FALSE), TRUE)
    ELSE Ret("Reserved", [ls EXCEPT !.write = Some(FALSE)], TRUE)

\* LockKind::Reserved arm
lock_Reserved(self_lock, ls) ==
    IF is_some(ls.write) \/ self_lock # "Shared"
    THEN Ret(self_lock, ls, FALSE)
    ELSE IF self_lock = "Shared"
    THEN DecRead(self_lock, ls, "Reserved", Some(FALSE), TRUE)
    ELSE Ret("Reserved", [ls EXCEPT !.write = Some(FALSE)], TRUE)

\* lock_Pending granting the level asked for.
lock_Pending_Grants(self_lock, ls) == Ret("Pending", ls, TRUE)

\* LockKind::Pending arm: cannot be requested directly
lock_Pending(self_lock, ls) == Ret(self_lock, ls, FALSE)

\* `lock_state.write = Some(true); if lock_state.read == 0 {..} else {..}`
GrantOrPend(read) ==
    IF read = 0
    THEN Ret("Exclusive", [read |-> read, write |-> Some(TRUE)], TRUE)
    ELSE Ret("Pending", [read |-> read, write |-> Some(TRUE)], FALSE)

\* lock_Exclusive keeping the caller's own reader slot when it leaves Shared.
lock_Exclusive_KeepsSlot(self_lock, ls) ==
    IF is_some(ls.write) /\ LockOrd(self_lock) <= LockOrd("Shared")
    THEN Ret(self_lock, ls, FALSE)
    ELSE GrantOrPend(ls.read)

\* lock_Exclusive refusing whenever a writer intent exists, the caller's own
\* included.
lock_Exclusive_RefusesOwnIntent(self_lock, ls) ==
    IF is_some(ls.write)
    THEN Ret(self_lock, ls, FALSE)
    ELSE IF self_lock = "Shared"
    THEN IF overflow_checks /\ usize_sub_overflows(ls.read, 1)
         THEN Panic(self_lock, ls)
         ELSE GrantOrPend(ls.read - 1)
    ELSE GrantOrPend(ls.read)

\* lock_Exclusive refusing only when the intent is exclusive, as the Shared
\* arm does.
lock_Exclusive_IgnoresReserved(self_lock, ls) ==
    IF ls.write = Some(TRUE) /\ LockOrd(self_lock) <= LockOrd("Shared")
    THEN Ret(self_lock, ls, FALSE)
    ELSE IF self_lock = "Shared"
    THEN IF overflow_checks /\ usize_sub_overflows(ls.read, 1)
         THEN Panic(self_lock, ls)
         ELSE GrantOrPend(ls.read - 1)
    ELSE GrantOrPend(ls.read)

\* LockKind::Exclusive arm
lock_Exclusive(self_lock, ls) ==
    IF is_some(ls.write) /\ LockOrd(self_lock) <= LockOrd("Shared")
    THEN Ret(self_lock, ls, FALSE)
    ELSE IF self_lock = "Shared"
    THEN IF overflow_checks /\ usize_sub_overflows(ls.read, 1)
         THEN Panic(self_lock, ls)
         ELSE GrantOrPend(ls.read - 1)
    ELSE GrantOrPend(ls.read)

\* Connection::lock(&mut self, to) -> bool
Connection_lock(self_lock, ls, to) ==
    IF self_lock = to
    THEN Ret(self_lock, ls, TRUE)
    ELSE IF mutex_poisoned
    THEN Panic(self_lock, ls)      \* self.lock_state.lock().unwrap()
    ELSE CASE to = "None" -> lock_None(self_lock, ls)
           [] to = "Shared" -> lock_Shared(self_lock, ls)
           [] to = "Reserved" -> lock_Reserved(self_lock, ls)
           [] to = "Pending" -> lock_Pending(self_lock, ls)
           [] to = "Exclusive" -> lock_Exclusive(self_lock, ls)

\* The record of a call, kept in `last`: who asked for what, from which level
\* and Lock State, the value returned, and the error or panic that ended the
\* call instead ("" when it returned normally).
Call(op, c, from, to, ret, err, pre) ==
    [op |-> op, conn |-> c, from |-> from, to |-> to, ret |-> ret, err |-> err,
     pre |-> pre]

Returned(call, b) == call.err = "" /\ call.ret = b

\* A call of Connection::lock by connection c, entered as `op`.
LockCall(op, c, to) ==
    LET r == Connection_lock(lock[c], lock_state, to) IN
    /\ lock' = [lock EXCEPT ![c] = r.lock]
    /\ lock_state' = r.lock_state
    /\ mutex_poisoned' = (mutex_poisoned \/ r.panic)
    /\ last' = Call(op, c, lock[c], to, r.ret, IF r.panic THEN "panic" ELSE "", lock_state)

TypeOK ==
    /\ live \subseteq Conns
    /\ lock \in [Conns -> LockKind]
    /\ lock_state.read \in Int
    /\ lock_state.write \in {OptNone, Some(FALSE), Some(TRUE)}
    /\ mutex_poisoned \in BOOLEAN
    /\ overflow_checks \in BOOLEAN

LockInit ==
    /\ live = {}
    /\ lock = [c \in Conns |-> "None"]
    /\ lock_state = [read |-> 0, write |-> OptNone]      \* LockState::default()
    /\ mutex_poisoned = FALSE
    /\ overflow_checks \in BOOLEAN
    /\ last = Call("new", 0, "None", "None", TRUE, "", [read |-> 0, write |-> OptNone])

\* PagesVfs::open(db, opts)
Open(c, db, kind) ==
    /\ c \notin live
    /\ IF db # "main.db"
       THEN /\ last' = Call("open", c, "None", "None", FALSE, "NotFound", lock_state)
            /\ UNCHANGED <<live, lock>>
       ELSE IF kind # "MainDb"
       THEN /\ last' = Call("open", c, "None", "None", FALSE, "PermissionDenied", lock_state)
            /\ UNCHANGED <<live, lock>>
       ELSE /\ live' = live \cup {c}
            /\ lock' = [lock EXCEPT ![c] = "None"]
            /\ last' = Call("open", c, "None", "None", TRUE, "", lock_state)
    /\ UNCHANGED <<lock_state, mutex_poisoned, overflow_checks, usize_bits, mem_vars>>

\* DatabaseHandle::lock(&mut self, lock)
Lock(c, to) ==
    /\ c \in live
    /\ LockCall("lock", c, to)
    /\ UNCHANGED <<live, overflow_checks, usize_bits, mem_vars>>

\* DatabaseHandle::unlock(&mut self, lock)
Unlock(c, to) ==
    /\ c \in live
    /\ LockCall("unlock", c, to)
    /\ UNCHANGED <<live, overflow_checks, usize_bits, mem_vars>>

\* Connection::reserved answering from the caller's own level alone.
Connection_reserved_OwnLevelOnly(self_lock, ls) ==
    Ret(self_lock, ls, LockOrd(self_lock) > LockOrd("Shared"))

\* Connection::reserved(&self) -> bool
Connection_reserved(self_lock, ls) ==
    IF LockOrd(self_lock) > LockOrd("Shared")
    THEN Ret(self_lock, ls, TRUE)
    ELSE IF mutex_poisoned
    THEN Panic(self_lock, ls)      \* self.lock_state.lock().unwrap()
    ELSE Ret(self_lock, ls, is_some(ls.write))

\* DatabaseHandle::reserved(&mut self)
Reserved(c) ==
    /\ c \in live
    /\ \E r \in {Connection_reserved(lock[c], lock_state)} :
       /\ lock' = [lock EXCEPT ![c] = r.lock]
       /\ lock_state' = r.lock_state
       /\ mutex_poisoned' = (mutex_poisoned \/ r.panic)
       /\ last' = Call("reserved", c, lock[c], lock[c], r.ret,
                       IF r.panic THEN "panic" ELSE "", lock_state)
    /\ UNCHANGED <<live, overflow_checks, usize_bits, mem_vars>>

\* A Drop that discards the Connection without unlocking it.
Drop_NoRelease(c) ==
    /\ c \in live
    /\ last' = Call("drop", c, lock[c], "None", TRUE, "", lock_state)
    /\ live' = live \ {c}
    /\ lock' = [lock EXCEPT ![c] = "None"]
    /\ UNCHANGED <<lock_state, mutex_poisoned, overflow_checks, usize_bits, mem_vars>>

\* impl Drop for Connection
Drop(c) ==
    /\ c \in live
    /\ IF lock[c] # "None"
       THEN LET r == Connection_lock(lock[c], lock_state, "None") IN
            /\ lock_state' = r.lock_state
            /\ mutex_poisoned' = (mutex_poisoned \/ r.panic)
            /\ last' = Call("drop", c, lock[c], "None", r.ret, IF r.panic THEN "panic" ELSE "", lock_state)
       ELSE /\ last' = Call("drop", c, lock[c], "None", TRUE, "", lock_state)
            /\ UNCHANGED <<lock_state, mutex_poisoned>>
    /\ live' = live \ {c}
    /\ lock' = [lock EXCEPT ![c] = "None"]
    /\ UNCHANGED <<overflow_checks, usize_bits, mem_vars>>


(***************************************************************************)
(* Part 2: unsigned 64-bit arithmetic.  A u64 is held as its eight base-256*)
(* digits, least significant first, so that every operation below is exact *)
(* over the whole range of the type.                                       *)
(***************************************************************************)
Byte == 0..255

\* The u64 of an integer 0 <= x < 2^31.
u64(x) ==
    <<x % 256, (x \div 256) % 256, (x \div 65536) % 256, (x \div 16777216) % 256,
      0, 0, 0, 0>>

\* The integer of a u64 below 2^31.
fits_int(w) == w[4] < 128 /\ w[5] = 0 /\ w[6] = 0 /\ w[7] = 0 /\ w[8] = 0
int(w) == w[1] + 256 * w[2] + 65536 * w[3] + 16777216 * w[4]

u64_MAX == <<255, 255, 255, 255, 255, 255, 255, 255>>
i64_MAX == <<255, 255, 255, 255, 255, 255, 255, 127>>

\* Digits i..8 of a + b + c, then the carry out of digit 8.
RECURSIVE add_digits(_, _, _, _)
add_digits(a, b, i, c) ==
    IF i = 9 THEN <<c>>
    ELSE <<(a[i] + b[i] + c) % 256>> \o add_digits(a, b, i + 1, (a[i] + b[i] + c) \div 256)

add_carry(a, b) == add_digits(a, b, 1, 0)[9]
wrapping_add(a, b) == SubSeq(add_digits(a, b, 1, 0), 1, 8)

\* u64::checked_add
checked_add(a, b) == IF add_carry(a, b) = 0 THEN Some(wrapping_add(a, b)) ELSE OptNone

\* Digits i..8 of a - b - c, then the borrow out of digit 8.
RECURSIVE sub_digits(_, _, _, _)
sub_digits(a, b, i, c) ==
    IF i = 9 THEN <<c>>
    ELSE <<(256 + a[i] - b[i] - c) % 256>>
         \o sub_digits(a, b, i + 1, IF a[i] - b[i] - c < 0 THEN 1 ELSE 0)

sub_borrow(a, b) == sub_digits(a, b, 1, 0)[9]
wrapping_sub(a, b) == SubSeq(sub_digits(a, b, 1, 0), 1, 8)

\* a < b, a > b on u64
lt(a, b) == sub_borrow(a, b) = 1
gt(a, b) == lt(b, a)

\* Digits i..8 of a * m + c for an integer 0 < m <= 65536, then the carry out.
RECURSIVE mul_digits(_, _, _, _)
mul_digits(a, m, i, c) ==
    IF i = 9 THEN <<c>>
    ELSE <<(a[i] * m + c) % 256>> \o mul_digits(a, m, i + 1, (a[i] * m + c) \div 256)

wrapping_mul(a, m) == SubSeq(mul_digits(a, m, 1, 0), 1, 8)

\* Digits 1..i of the quotient of (r * 256^i + the low i digits of a) by an
\* integer 0 < d <= 65536, then the remainder.
RECURSIVE div_digits(_, _, _, _)
div_digits(a, d, i, r) ==
    IF i = 0 THEN <<r>>
    ELSE LET low == div_digits(a, d, i - 1, (r * 256 + a[i]) % d) IN
         SubSeq(low, 1, i - 1) \o <<(r * 256 + a[i]) \div d, low[i]>>

div(a, d) == SubSeq(div_digits(a, d, 8, 0), 1, 8)
rem(a, d) == div_digits(a, d, 8, 0)[9]

\* a << 16: the bits shifted out of the top are lost
shl16(a) == <<0, 0, a[1], a[2], a[3], a[4], a[5], a[6]>>

\* u64::to_be_bytes, u64::from_be_bytes: most significant byte first
to_be_bytes(a) == <<a[8], a[7], a[6], a[5], a[4], a[3], a[2], a[1]>>
from_be_bytes(b) == <<b[8], b[7], b[6], b[5], b[4], b[3], b[2], b[1]>>

\* The number of significant bits of a u64.
bits_of_byte(d) == CHOOSE n \in 0..8 : (d = 0 /\ n = 0) \/ (d # 0 /\ 2 ^ n > d /\ 2 ^ n <= 2 * d)
top_digit(a) == IF a = u64(0) THEN 0 ELSE CHOOSE i \in 1..8 : a[i] # 0 /\ \A j \in (i + 1)..8 : a[j] = 0
bit_length(a) == IF a = u64(0) THEN 0 ELSE 8 * (top_digit(a) - 1) + bits_of_byte(a[top_digit(a)])

\* ceil(a / 2^k) for 0 < k <= 16
ceil_div_pow2(a, k) ==
    IF rem(a, 2 ^ k) = 0 THEN div(a, 2 ^ k) ELSE wrapping_add(div(a, 2 ^ k), u64(1))

(***************************************************************************)
(* (a as f64 / 65536 as f64).ceil() as u64.  `a as f64` is exact below     *)
(* 2^53 and otherwise rounds a to 53 significant bits, ties to even; the   *)
(* division by 2^16 is exact, ceil is taken of the quotient, and the       *)
(* result (at most 2^48) converts back exactly.                            *)
(***************************************************************************)
f64_ceil_div_page(a) ==
    IF bit_length(a) <= 53
    THEN ceil_div_pow2(a, 16)
    ELSE LET shift == bit_length(a) - 53
             q == div(a, 2 ^ shift)
             r == rem(a, 2 ^ shift)
             half == 2 ^ (shift - 1)
             up == r > half \/ (r = half /\ q[1] % 2 = 1)
             m == IF up THEN wrapping_add(q, u64(1)) ELSE q
         IN  ceil_div_pow2(m, 16 - shift)


(***************************************************************************)
(* Part 3: VectorMemory, a Memory over Arc<RwLock<Vec<u8>>>.               *)
(*                                                                         *)
(* The Vec<u8> is held as its length and the set of <<index, byte>> pairs  *)
(* of its non-zero bytes; every other byte below the length is 0.  With    *)
(* `poisoned` (the RwLock's flag) this is the value of the variable        *)
(* `memory`.  usize is usize_bits wide: 32 on wasm32, 64 on a 64-bit host. *)
(***************************************************************************)
WASM_PAGE_SIZE == 65536

MAX_PAGES == div(i64_MAX, WASM_PAGE_SIZE)

\* The most pages the host's allocator grants to the buffer.
HostPages == 2

\* `x as usize` for a u64 x
as_usize(x) ==
    IF usize_bits = 32 THEN <<x[1], x[2], x[3], x[4], 0, 0, 0, 0>> ELSE x

isize_MAX ==
    IF usize_bits = 32 THEN <<255, 255, 255, 127, 0, 0, 0, 0>> ELSE i64_MAX

\* `x as i64` for a u64 x whose magnitude is below 2^31
as_i64(x) == IF x[8] >= 128 THEN 0 - int(wrapping_sub(u64(0), x)) ELSE int(x)

\* What a call leaves behind: the memory, the value returned, and the way the
\* call ended when it did not return ("panic", "abort", "OutOfMemory").
Out(m, val, err) == [mem |-> m, val |-> val, err |-> err]

\* VectorMemory::default()
VectorMemory_default == [len |-> 20, nz |-> {}, poisoned |-> FALSE]

vec_get(m, i) ==
    IF \E p \in m.nz : p[1] = i THEN (CHOOSE p \in m.nz : p[1] = i)[2] ELSE 0

\* &v[a..b]
RECURSIVE vec_slice(_, _, _)
vec_slice(m, a, b) ==
    IF a >= b THEN <<>> ELSE <<vec_get(m, a)>> \o vec_slice(m, a + 1, b)

\* v[a..a + src.len()].copy_from_slice(src)
vec_copy_from_slice(m, a, src) ==
    [m EXCEPT !.nz = {p \in m.nz : p[1] < a \/ p[1] >= a + Len(src)}
                     \cup {<<a + k - 1, src[k]>> : k \in {j \in 1..Len(src) : src[j] # 0}}]

\* Vec::resize(new_len, 0) under the write guard.  Growing beyond isize::MAX
\* bytes panics with "capacity overflow" (poisoning the RwLock); an
\* allocation the host does not grant aborts the process.
Vec_resize(m, new_len, val) ==
    IF ~gt(new_len, u64(m.len))
    THEN Out([m EXCEPT !.len = int(new_len), !.nz = {p \in m.nz : p[1] < int(new_len)}],
             val, "")
    ELSE IF gt(new_len, isize_MAX)
    THEN Out([m EXCEPT !.poisoned = TRUE], val, "panic")
    ELSE IF gt(new_len, u64(HostPages * WASM_PAGE_SIZE))
    THEN Out(m, val, "abort")
    ELSE Out([m EXCEPT !.len = int(new_len)], val, "")

\* the size in pages of a buffer
Pages(m) == m.len \div WASM_PAGE_SIZE

\* VectorMemory::size
VectorMemory_size(m) ==
    IF m.poisoned
    THEN Out(m, u64(0), "panic")
    ELSE Out(m, div(u64(m.len), WASM_PAGE_SIZE), "")

\* grow_resize with `size.wrapping_add(pages)` for `size.checked_add(pages)`
grow_resize_WrappingAdd(m, size, pages) ==
    LET n == wrapping_add(size, pages) IN
    IF gt(n, MAX_PAGES)
    THEN Out(m, 0 - 1, "")
    ELSE IF m.poisoned
    THEN Out(m, 0, "panic")
    ELSE Vec_resize(m, as_usize(wrapping_mul(n, WASM_PAGE_SIZE)), as_i64(size))

\* VectorMemory::grow after `let size = self.size();`
grow_resize(m, size, pages) ==
    LET s == checked_add(size, pages) IN
    IF s = OptNone
    THEN Out(m, 0 - 1, "")
    ELSE LET n == s[1] IN
         IF gt(n, MAX_PAGES)
         THEN Out(m, 0 - 1, "")
         ELSE IF m.poisoned
         THEN Out(m, 0, "panic")
         ELSE Vec_resize(m, as_usize(wrapping_mul(n, WASM_PAGE_SIZE)), as_i64(size))

\* VectorMemory::grow
VectorMemory_grow(m, pages) ==
    LET size == VectorMemory_size(m) IN
    IF size.err # "" THEN Out(m, 0, size.err) ELSE grow_resize(m, size.val, pages)

\* The bounds check of VectorMemory::read and VectorMemory::write: the end
\* `n` of the range, or a panic.
bounds_check(m, offset, len) ==
    LET s == checked_add(offset, u64(len)) IN
    IF s = OptNone
    THEN Out(m, u64(0), "panic")
    ELSE IF m.poisoned
    THEN Out(m, u64(0), "panic")
    ELSE IF gt(as_usize(s[1]), u64(m.len))
    THEN Out(m, u64(0), "panic")
    ELSE Out(m, s[1], "")

\* [offset as usize..n as usize] is a range of the buffer of length len
range_ok(m, offset, n, len) ==
    /\ ~gt(as_usize(offset), as_usize(n))
    /\ ~gt(as_usize(n), u64(m.len))
    /\ wrapping_sub(as_usize(n), as_usize(offset)) = u64(len)

\* read_copy that leaves dst as it was
read_copy_NoCopy(m, offset, n, dst) ==
    IF m.poisoned \/ ~range_ok(m, offset, n, Len(dst))
    THEN Out(m, dst, "panic")
    ELSE Out(m, dst, "")

\* `dst.copy_from_slice(&self.0.read().unwrap()[offset as usize..n as usize])`
read_copy(m, offset, n, dst) ==
    IF m.poisoned \/ ~range_ok(m, offset, n, Len(dst))
    THEN Out(m, dst, "panic")
    ELSE Out(m, vec_slice(m, int(as_usize(offset)), int(as_usize(n))), "")

\* `self.0.write().unwrap()[offset as usize..n as usize].copy_from_slice(src)`
write_copy(m, offset, n, src) ==
    IF m.poisoned
    THEN Out(m, src, "panic")
    ELSE IF ~range_ok(m, offset, n, Len(src))
    THEN Out([m EXCEPT !.poisoned = TRUE], src, "panic")
    ELSE Out(vec_copy_from_slice(m, int(as_usize(offset)), src), src, "")

\* VectorMemory::read
VectorMemory_read(m, offset, dst) ==
    LET n == bounds_check(m, offset, Len(dst)) IN
    IF n.err # "" THEN Out(m, dst, n.err) ELSE read_copy(m, offset, n.val, dst)

\* VectorMemory::write
VectorMemory_write(m, offset, src) ==
    LET n == bounds_check(m, offset, Len(src)) IN
    IF n.err # "" THEN Out(m, src, n.err) ELSE write_copy(m, offset, n.val, src)

(***************************************************************************)
(* Part 4: the file operations of Connection<VectorMemory>.                *)
(***************************************************************************)
SQLITE_SIZE_IN_BYTES == 8

WASM_PAGE_SIZE_IN_BYTES == 64 * 1024

\* a + b on u64: panics on overflow with overflow checks, wraps without
u64_add(m, a, b) ==
    IF overflow_checks /\ add_carry(a, b) # 0
    THEN Out(m, u64(0), "panic")
    ELSE Out(m, wrapping_add(a, b), "")

\* Connection::stable_capacity
stable_capacity(m) ==
    LET size == VectorMemory_size(m) IN
    IF size.err # "" THEN size ELSE Out(m, shl16(size.val), "")

\* Connection::stable_grow_bytes
stable_grow_bytes(m, size) ==
    LET added_pages == f64_ceil_div_page(size)
        g == VectorMemory_grow(m, added_pages)
    IN  IF g.err # "" THEN Out(g.mem, u64(0), g.err)
        ELSE IF g.val = 0 - 1 THEN Out(g.mem, u64(0), "OutOfMemory")
        ELSE Out(g.mem, u64(g.val), "")

\* Connection::db_size
db_size(m) ==
    LET size == VectorMemory_size(m) IN
    IF size.err # "" THEN size
    ELSE IF size.val = u64(0) THEN Out(m, u64(0), "")
    ELSE LET r == VectorMemory_read(m, u64(0), SubSeq(u64(0), 1, SQLITE_SIZE_IN_BYTES)) IN
         IF r.err # "" THEN Out(m, u64(0), r.err) ELSE Out(m, from_be_bytes(r.val), "")

\* PagesVfs::exists: `&&` does not evaluate memory.size() for another name
exists(m, db) ==
    IF db # "main.db" THEN Out(m, FALSE, "")
    ELSE LET size == VectorMemory_size(m) IN
         IF size.err # "" THEN Out(m, FALSE, size.err)
         ELSE Out(m, gt(size.val, u64(0)), "")

\* DatabaseHandle::read_exact_at
read_exact_at(m, buf, offset) ==
    LET size == VectorMemory_size(m) IN
    IF size.err # "" THEN Out(m, buf, size.err)
    ELSE IF gt(size.val, u64(0))
    THEN LET at == u64_add(m, offset, u64(SQLITE_SIZE_IN_BYTES)) IN
         IF at.err # "" THEN Out(m, buf, at.err) ELSE VectorMemory_read(m, at.val, buf)
    ELSE Out(m, buf, "")

\* The payload write of write_all_at: `self.memory.write(offset + 8, buf)`
write_payload(m, buf, offset) ==
    LET at == u64_add(m, offset, u64(SQLITE_SIZE_IN_BYTES)) IN
    IF at.err # "" THEN Out(m, buf, at.err) ELSE VectorMemory_write(m, at.val, buf)

\* DatabaseHandle::write_all_at
write_all_at(m, buf, offset) ==
    LET size == u64_add(m, offset, u64(Len(buf))) IN
    IF size.err # "" THEN Out(m, buf, size.err)
    ELSE LET old == db_size(m) IN
         IF old.err # "" THEN Out(m, buf, old.err)
         ELSE IF gt(size.val, old.val)
         THEN LET h == VectorMemory_write(m, u64(0), to_be_bytes(size.val)) IN
              IF h.err # "" THEN Out(h.mem, buf, h.err) ELSE write_payload(h.mem, buf, offset)
         ELSE write_payload(m, buf, offset)

\* The capacity set_len compares with
set_len_capacity(m) ==
    LET size == VectorMemory_size(m) IN
    IF size.err # "" THEN size
    ELSE IF size.val = u64(0) THEN Out(m, u64(0), "")
    ELSE LET c == stable_capacity(m) IN
         IF c.err # "" THEN c
         ELSE Out(m, wrapping_sub(c.val, u64(SQLITE_SIZE_IN_BYTES)), "")

\* set_len writing the header before it asks for the growth.
set_len_HeaderFirst(m, size) ==
    LET capacity == set_len_capacity(m) IN
    IF capacity.err # "" THEN capacity
    ELSE IF gt(size, capacity.val)
    THEN LET h == VectorMemory_write(m, u64(0), to_be_bytes(size)) IN
         IF h.err # "" THEN Out(h.mem, u64(0), h.err)
         ELSE stable_grow_bytes(h.mem, wrapping_sub(size, capacity.val))
    ELSE Out(m, u64(0), "")

\* DatabaseHandle::set_len
set_len(m, size) ==
    LET capacity == set_len_capacity(m) IN
    IF capacity.err # "" THEN capacity
    ELSE IF gt(size, capacity.val)
    THEN LET g == stable_grow_bytes(m, wrapping_sub(size, capacity.val)) IN
         IF g.err # "" THEN g
         ELSE LET h == VectorMemory_write(g.mem, u64(0), to_be_bytes(size)) IN
              Out(h.mem, u64(0), h.err)
    ELSE Out(m, u64(0), "")


(***************************************************************************)
(* Part 5: calls on the memory.  Sequential callers make one whole call    *)
(* per step; a panic ends the call and leaves the memory as the call left  *)
(* it, an abort ends the process.                                          *)
(***************************************************************************)
\* The record of a call on the memory or on a file, kept in `mem_last`: the
\* u64 argument, the bytes passed, the i64 or the bytes returned, the way
\* the call ended, and of the memory before it the size in pages and the
\* logical size of the file.  `written` is filled in by a read: the bytes of
\* the write that returned just before it, when that write was at the read's
\* offset and of the read's length; `db` and `ok` are filled in by exists: the
\* name asked for and the bool returned.
MemCall(op, arg, data, ret, out, err, pre) ==
    [op |-> op, arg |-> arg, data |-> data, ret |-> ret, out |-> out, err |-> err,
     pages |-> Pages(pre), size |-> db_size(pre).val, written |-> <<>>,
     db |-> "", ok |-> FALSE]

\* A thread that makes no call
Idle == [pc |-> "idle", op |-> "", arg |-> u64(0), data |-> <<>>, size |-> u64(0),
         n |-> u64(0), ret |-> 0, out |-> <<>>, err |-> ""]

NThreads == 3
Threads == 1..NThreads

MemInit ==
    /\ usize_bits \in {32, 64}
    /\ memory = VectorMemory_default
    /\ aborted = FALSE
    /\ mem_last = MemCall("new", u64(0), <<>>, 0, <<>>, "", VectorMemory_default)
    /\ thr = [t \in Threads |-> Idle]

Init == LockInit /\ MemInit

Next ==
    \/ \E c \in Conns, db \in {"main.db", "other.db"}, kind \in {"MainDb", "MainJournal"} :
           Open(c, db, kind)
    \/ \E c \in Conns, to \in LockKind : Lock(c, to)
    \/ \E c \in Conns, to \in LockKind : Unlock(c, to)
    \/ \E c \in Conns : Reserved(c)
    \/ \E c \in Conns : Drop(c)

Spec == Init /\ [][Next]_vars

(***************************************************************************)
(* The file operations of one Connection, called one after the other.      *)
(***************************************************************************)
FileSizes == {u64(x) : x \in {0, 1, 65529, 65536, 131064}} \cup {i64_MAX, u64_MAX}
FileOffsets == {u64(x) : x \in {0, 65527}}
Bufs == {<<1>>, <<2, 3>>}

\* The memory after a call that ended as r, recorded as `call`.
MemStep(r, call) ==
    /\ memory' = r.mem
    /\ aborted' = (r.err = "abort")
    /\ mem_last' = call
    /\ UNCHANGED <<lock_vars, overflow_checks, usize_bits, thr>>

SetLen(size) ==
    /\ ~aborted
    /\ \E r \in {set_len(memory, size)} :
       MemStep(r, MemCall("set_len", size, <<>>, 0, <<>>, r.err, memory))

WriteAllAt(buf, offset) ==
    /\ ~aborted
    /\ \E r \in {write_all_at(memory, buf, offset)} :
       MemStep(r, MemCall("write_all_at", offset, buf, 0, <<>>, r.err, memory))

ReadExactAt(buf, offset) ==
    /\ ~aborted
    /\ \E r \in {read_exact_at(memory, buf, offset)} :
       MemStep(r, MemCall("read_exact_at", offset, buf, 0, r.val, r.err, memory))

\* DatabaseHandle::size
Size ==
    /\ ~aborted
    /\ \E r \in {db_size(memory)} :
       MemStep(r, MemCall("size", u64(0), <<>>, 0, r.val, r.err, memory))

\* Vfs::exists
Exists(db) ==
    /\ ~aborted
    /\ \E r \in {exists(memory, db)} :
       MemStep(r, [MemCall("exists", u64(0), <<>>, 0, <<>>, r.err, memory)
                       EXCEPT !.db = db, !.ok = r.val])

NextVfs ==
    \/ \E size \in FileSizes : SetLen(size)
    \/ \E buf \in Bufs, offset \in FileOffsets : WriteAllAt(buf, offset)
    \/ \E buf \in Bufs, offset \in FileOffsets : ReadExactAt(buf, offset)
    \/ Size
    \/ \E db \in {"main.db", "other.db"} : Exists(db)

SpecVfs == Init /\ [][NextVfs]_vars

(***************************************************************************)
(* The Memory operations of one VectorMemory, called one after the other.  *)
(***************************************************************************)
GrowPages == {u64(0), u64(1), u64(2), u64(65535), u64(65536), MAX_PAGES, u64_MAX}
MemOffsets == {u64(x) : x \in {0, 19, 65535}}
Dsts == {<<0>>, <<0, 0>>}

\* the bytes a read at `offset` into `dst` follows the write of, if any
JustWritten(offset, dst) ==
    IF /\ mem_last.op = "write" /\ mem_last.err = ""
       /\ mem_last.arg = offset /\ Len(mem_last.data) = Len(dst)
    THEN mem_last.data ELSE <<>>

Grow(pages) ==
    /\ ~aborted
    /\ \E r \in {VectorMemory_grow(memory, pages)} :
       MemStep(r, MemCall("grow", pages, <<>>, r.val, <<>>, r.err, memory))

Read(offset, dst) ==
    /\ ~aborted
    /\ \E r \in {VectorMemory_read(memory, offset, dst)} :
       MemStep(r, [MemCall("read", offset, dst, 0, r.val, r.err, memory)
                       EXCEPT !.written = JustWritten(offset, dst)])

Write(offset, src) ==
    /\ ~aborted
    /\ \E r \in {VectorMemory_write(memory, offset, src)} :
       MemStep(r, MemCall("write", offset, src, 0, <<>>, r.err, memory))

MemSize ==
    /\ ~aborted
    /\ \E r \in {VectorMemory_size(memory)} :
       MemStep(r, MemCall("size", u64(0), <<>>, 0, r.val, r.err, memory))

NextMem ==
    \/ \E pages \in GrowPages : Grow(pages)
    \/ \E offset \in MemOffsets, dst \in Dsts : Read(offset, dst)
    \/ \E offset \in MemOffsets, src \in Bufs : Write(offset, src)
    \/ MemSize

SpecMem == Init /\ [][NextMem]_vars

(***************************************************************************)
(* The Memory operations called by NThreads threads at once, one call per  *)
(* thread.  A step is what a call does under one acquisition of the        *)
(* RwLock: grow reads the size under a read guard and resizes under a      *)
(* write guard taken afterwards; read and write check the bounds under a   *)
(* read guard and copy under a second guard.                               *)
(***************************************************************************)
ConcPages == {u64(1), u64(2)}
ConcOffsets == {u64(0), u64(65536)}

ThrStep(t, rec) ==
    /\ thr' = [thr EXCEPT ![t] = rec]
    /\ UNCHANGED <<lock_vars, overflow_checks, usize_bits, mem_last>>

StartGrow(t, pages) ==
    /\ ~aborted
    /\ thr[t].pc = "idle"
    /\ ThrStep(t, [thr[t] EXCEPT !.pc = "grow_size", !.op = "grow", !.arg = pages])
    /\ UNCHANGED <<memory, aborted>>

StartRead(t, offset, dst) ==
    /\ ~aborted
    /\ thr[t].pc = "idle"
    /\ ThrStep(t, [thr[t] EXCEPT !.pc = "check", !.op = "read", !.arg = offset, !.data = dst])
    /\ UNCHANGED <<memory, aborted>>

StartWrite(t, offset, src) ==
    /\ ~aborted
    /\ thr[t].pc = "idle"
    /\ ThrStep(t, [thr[t] EXCEPT !.pc = "check", !.op = "write", !.arg = offset, !.data = src])
    /\ UNCHANGED <<memory, aborted>>

\* `let size = self.size();`
GrowSize(t) ==
    /\ ~aborted
    /\ thr[t].pc = "grow_size"
    /\ \E r \in {VectorMemory_size(memory)} :
       ThrStep(t, IF r.err # ""
                  THEN [thr[t] EXCEPT !.pc = "panicked", !.err = r.err]
                  ELSE [thr[t] EXCEPT !.pc = "grow_resize", !.size = r.val])
    /\ UNCHANGED <<memory, aborted>>

\* the rest of grow
GrowResize(t) ==
    /\ ~aborted
    /\ thr[t].pc = "grow_resize"
    /\ \E r \in {grow_resize(memory, thr[t].size, thr[t].arg)} :
       /\ ThrStep(t, [thr[t] EXCEPT !.pc = IF r.err = "" THEN "done" ELSE "panicked",
                                    !.ret = r.val, !.err = r.err])
       /\ memory' = r.mem
       /\ aborted' = (r.err = "abort")

\* the bounds check of read and write
Check(t) ==
    /\ ~aborted
    /\ thr[t].pc = "check"
    /\ \E r \in {bounds_check(memory, thr[t].arg, Len(thr[t].data))} :
       ThrStep(t, IF r.err # ""
                  THEN [thr[t] EXCEPT !.pc = "panicked", !.err = r.err]
                  ELSE [thr[t] EXCEPT !.pc = "copy", !.n = r.val])
    /\ UNCHANGED <<memory, aborted>>

\* the copy of read and write; "faulted" is the panic of the slice index
Copy(t) ==
    /\ ~aborted
    /\ thr[t].pc = "copy"
    /\ LET r == IF thr[t].op = "read"
                THEN read_copy(memory, thr[t].arg, thr[t].n, thr[t].data)
                ELSE write_copy(memory, thr[t].arg, thr[t].n, thr[t].data)
       IN
       /\ ThrStep(t, [thr[t] EXCEPT
                        !.pc = IF r.err = "" THEN "done"
                               ELSE IF memory.poisoned THEN "panicked" ELSE "faulted",
                        !.out = r.val, !.err = r.err])
       /\ memory' = r.mem
       /\ UNCHANGED aborted

NextConc ==
    \/ \E t \in Threads, pages \in ConcPages : StartGrow(t, pages)
    \/ \E t \in Threads, offset \in ConcOffsets : StartRead(t, offset, <<0>>)
    \/ \E t \in Threads, offset \in ConcOffsets : StartWrite(t, offset, <<1>>)
    \/ \E t \in Threads : GrowSize(t)
    \/ \E t \in Threads : GrowResize(t)
    \/ \E t \in Threads : Check(t)
    \/ \E t \in Threads : Copy(t)

SpecConc == Init /\ [][NextConc]_vars

(***************************************************************************)
(* The lock protocol with a waiting writer that keeps retrying: a          *)
(* Connection at Pending asks for nothing but Exclusive and is not         *)
(* dropped, a reader at Shared is eventually released, and the retry is    *)
(* eventually made.                                                        *)
(***************************************************************************)
KeepsRetrying(c, to) == lock[c] = "Pending" => to = "Exclusive"

NextHandoff ==
    \/ \E c \in Conns, db \in {"main.db", "other.db"}, kind \in {"MainDb", "MainJournal"} :
           Open(c, db, kind)
    \/ \E c \in Conns, to \in LockKind : KeepsRetrying(c, to) /\ Lock(c, to)
    \/ \E c \in Conns, to \in LockKind : KeepsRetrying(c, to) /\ Unlock(c, to)
    \/ \E c \in Conns : lock[c] # "Pending" /\ Drop(c)

Release(c) == lock[c] = "Shared" /\ Unlock(c, "None")
Retry(c) == lock[c] = "Pending" /\ Lock(c, "Exclusive")

SpecHandoff ==
    /\ Init
    /\ [][NextHandoff]_vars
    /\ \A c \in Conns : WF_vars(Release(c)) /\ WF_vars(Retry(c))

(***************************************************************************)
(* Claims about the lock protocol.                                         *)
(***************************************************************************)
At(k) == {c \in live : lock[c] = k}
AboveShared == {c \in live : LockOrd(lock[c]) > LockOrd("Shared")}
IsRequest(call) == call.op \in {"lock", "unlock"}

\* C1: at most one connection is above Shared; writerIntent is non-none
\* exactly when one is, 'reserved' iff it is at Reserved and 'exclusive' iff
\* it is at Pending or Exclusive.
C1_SingleWriterIntent ==
    /\ Cardinality(AboveShared) <= 1
    /\ is_some(lock_state.write) <=> AboveShared # {}
    /\ lock_state.write = Some(FALSE) <=> At("Reserved") # {}
    /\ lock_state.write = Some(TRUE) <=> At("Pending") \cup At("Exclusive") # {}

\* A second connection asked for Reserved while another one held it.
C1_Witness ==
    /\ IsRequest(last) /\ last.to = "Reserved" /\ Returned(last, FALSE)
    /\ At("Reserved") # {} /\ last.conn \notin At("Reserved")
    /\ lock[last.conn] = "Shared"

\* C2: while a connection is at Exclusive every other connection is at None;
\* a Shared request by another connection then returns false, and the Shared
\* request that follows the holder's release to None returns true.
C2_Exclusion ==
    \A a \in live : lock[a] = "Exclusive" =>
        \A b \in live \ {a} : lock[b] = "None"

C2_Step ==
    \A b \in Conns :
        (IsRequest(last') /\ last'.conn = b /\ last'.to = "Shared") =>
            /\ (\E a \in live \ {b} : lock[a] = "Exclusive") => Returned(last', FALSE)
            /\ (/\ last.op \in {"lock", "unlock", "drop"}
                /\ last.conn # b
                /\ last.from = "Exclusive" /\ last.to = "None") => Returned(last', TRUE)

C2_ReaderWriterExclusion == []C2_Exclusion /\ [][C2_Step]_vars

\* A Shared request was refused while another connection is at Exclusive.
C2_Witness ==
    /\ IsRequest(last) /\ last.to = "Shared" /\ Returned(last, FALSE)
    /\ \E a \in live \ {last.conn} : lock[a] = "Exclusive"

\* C3: readers equals the number of live connections at exactly Shared, and
\* no transition has decremented it at 0 (which wraps the counter below 0 or,
\* with overflow checks, panics inside the critical section).
C3_ReadersCountShared ==
    /\ lock_state.read = Cardinality(At("Shared"))
    /\ lock_state.read >= 0
    /\ ~mutex_poisoned

\* A reader escalated past Shared while two other readers remain.
C3_Witness ==
    /\ IsRequest(last) /\ last.from = "Shared" /\ last.to = "Reserved" /\ Returned(last, TRUE)
    /\ lock_state.read = 2

\* C4: with A and B at Shared and every other connection at None, A's request
\* for Exclusive returns false and leaves A at Pending; a retry made when no
\* connection is at Shared any more returns true and leaves A at Exclusive;
\* and a connection at Pending that keeps retrying while the readers release
\* eventually reaches Exclusive.
C4_Step ==
    \A a \in Conns :
        (IsRequest(last') /\ last'.conn = a /\ last'.to = "Exclusive") =>
            /\ (/\ lock[a] = "Shared"
                /\ \E b \in live \ {a} :
                     /\ lock[b] = "Shared"
                     /\ \A c \in live \ {a, b} : lock[c] = "None")
               => (Returned(last', FALSE) /\ lock'[a] = "Pending")
            /\ (/\ lock[a] = "Pending"
                /\ \A c \in live \ {a} : lock[c] = "None")
               => (Returned(last', TRUE) /\ lock'[a] = "Exclusive")

C4_PendingHandoff ==
    /\ [][C4_Step]_vars
    /\ \A a \in Conns : (a \in live /\ lock[a] = "Pending") ~> (lock[a] = "Exclusive")

\* The retry after the last reader's release was granted.
C4_Witness ==
    /\ IsRequest(last) /\ last.from = "Pending" /\ last.to = "Exclusive"
    /\ Returned(last, TRUE) /\ lock[last.conn] = "Exclusive"
    /\ Cardinality(live) >= 2

\* C5 as claimed: a request for Reserved that returns true comes from a
\* connection at exactly Shared with writerIntent none, which gives up its
\* reader slot and sets writerIntent to reserved; and a request for Reserved
\* by a connection other than the one at Reserved returns false.
C5_GrantedFromSharedOnly ==
    (IsRequest(last) /\ last.to = "Reserved" /\ Returned(last, TRUE)) =>
        /\ last.from = "Shared"
        /\ last.pre.write = OptNone
        /\ lock_state = [read |-> last.pre.read - 1, write |-> Some(FALSE)]
        /\ lock[last.conn] = "Reserved"

C5_OthersRefused ==
    (IsRequest(last) /\ last.to = "Reserved"
        /\ \E a \in live \ {last.conn} : lock[a] = "Reserved") => Returned(last, FALSE)

C5_Original == C5_GrantedFromSharedOnly /\ C5_OthersRefused

\* C5 amended: the same, for a request made by a connection that is not
\* already at Reserved (the holder's own repeated request returns true and
\* changes nothing).
C5_ReservedExclusion ==
    /\ last.from # "Reserved" => C5_GrantedFromSharedOnly
    /\ (IsRequest(last) /\ last.to = "Reserved" /\ last.from = "Reserved") =>
           (Returned(last, TRUE) /\ lock_state = last.pre /\ lock[last.conn] = "Reserved")
    /\ C5_OthersRefused

\* Another connection's request for Reserved was refused while one holds it.
C5_Witness ==
    /\ IsRequest(last) /\ last.to = "Reserved" /\ Returned(last, FALSE)
    /\ \E a \in live \ {last.conn} : lock[a] = "Reserved"

\* C6: a drop gives back what the connection held (its reader slot from
\* Shared, the writer intent from above Shared), after which a connection at
\* Shared is granted Reserved when no writer intent is left; and when every
\* live connection is at None the Lock State is readers = 0, writerIntent none.
C6_Step ==
    last'.op = "drop" =>
        /\ last'.from = "Shared" => lock_state' = [lock_state EXCEPT !.read = @ - 1]
        /\ LockOrd(last'.from) > LockOrd("Shared") =>
               /\ lock_state' = [lock_state EXCEPT !.write = OptNone]
               /\ \A b \in live' : lock'[b] = "Shared" =>
                      Connection_lock(lock'[b], lock_state', "Reserved").ret
        /\ last'.conn \notin live'

C6_Idle ==
    (\A c \in live : lock[c] = "None") => lock_state = [read |-> 0, write |-> OptNone]

C6_DropReleases == []C6_Idle /\ [][C6_Step]_vars

\* A connection at Reserved was dropped while another one is at Shared.
C6_Witness ==
    /\ last.op = "drop" /\ last.from = "Reserved"
    /\ At("Shared") # {}
    /\ lock_state.write = OptNone

(***************************************************************************)
(* Claims about the memory and the file operations.                        *)
(***************************************************************************)
\* size in pages of the buffer
\* the value of the 8-byte header
Header(m) == from_be_bytes(vec_slice(m, 0, SQLITE_SIZE_IN_BYTES))

\* C7: the logical size in the header is at most the physical capacity
\* (size in pages times 65536) minus 8, in every state a sequence of set_len
\* and write_all_at calls reaches (an empty resource has logical size 0).
C7_HeaderWithinCapacity ==
    IF Pages(memory) = 0
    THEN db_size(memory).val = u64(0)
    ELSE ~gt(Header(memory), u64(Pages(memory) * WASM_PAGE_SIZE - SQLITE_SIZE_IN_BYTES))

\* C8: after write_all_at(offset, bytes) has returned with offset + len(bytes)
\* greater than the logical size before the call, size() returns
\* offset + len(bytes), whatever the size in pages was.
C8_HeaderConsistency ==
    (/\ mem_last.op = "write_all_at" /\ mem_last.err = ""
     /\ gt(wrapping_add(mem_last.arg, u64(Len(mem_last.data))), mem_last.size))
    => db_size(memory) = Out(memory, wrapping_add(mem_last.arg, u64(Len(mem_last.data))), "")

\* the pages granted by the grow calls that have returned
RECURSIVE Granted(_)
Granted(T) ==
    IF T = {} THEN 0
    ELSE LET t == CHOOSE x \in T : TRUE IN
         (IF thr[t].op = "grow" /\ thr[t].pc = "done" /\ thr[t].ret # 0 - 1
          THEN int(thr[t].arg) ELSE 0) + Granted(T \ {t})

\* C9: with the calls of several threads interleaved, the size in pages never
\* decreases, it is the initial size plus the pages granted once no grow is
\* under way, and no read or write faults after its bounds check passed.
C9_SizeOfGrants ==
    (\A t \in Threads : thr[t].op = "grow" => thr[t].pc = "done") =>
        Pages(memory) = Pages(VectorMemory_default) + Granted(Threads)

C9_NoFault == \A t \in Threads : thr[t].pc # "faulted"

C9_Step == Pages(memory') >= Pages(memory)

C9_AtomicCalls == [](C9_SizeOfGrants /\ C9_NoFault) /\ [][C9_Step]_vars

\* C10: a grow(n) that returns a size returns the size before the call and
\* leaves the size n pages larger; no call makes the size smaller and only
\* grow changes it.
C10_GrowResult ==
    (mem_last.op = "grow" /\ mem_last.err = "" /\ mem_last.ret # 0 - 1) =>
        /\ mem_last.ret = mem_last.pages
        /\ u64(Pages(memory)) = wrapping_add(u64(mem_last.pages), mem_last.arg)

C10_Step ==
    /\ Pages(memory') >= Pages(memory)
    /\ Pages(memory') # Pages(memory) => mem_last'.op = "grow"

C10_GrowthMonotone == []C10_GrowResult /\ [][C10_Step]_vars

\* currentPages + n exceeds MAX_PAGES, as a u64 sum or by overflowing u64
ExceedsMaxPages(pages, n) ==
    \/ add_carry(u64(pages), n) # 0
    \/ gt(wrapping_add(u64(pages), n), MAX_PAGES)

\* C11: a grow(n) made when size() returns currentPages and currentPages + n
\* exceeds floor(i64::MAX / 65536), the sum overflowing u64 included, returns
\* -1 and leaves the size and the contents of the memory as they were.
C11_Step ==
    (/\ mem_last'.op = "grow"
     /\ VectorMemory_size(memory).err = ""
     /\ ExceedsMaxPages(Pages(memory), mem_last'.arg))
    => (mem_last'.err = "" /\ mem_last'.ret = 0 - 1 /\ memory' = memory)

C11_GrowthOverflow == [][C11_Step]_vars

\* a grow(u64::MAX) at one page or more, where the sum overflows u64, returned -1
C11_Witness ==
    /\ mem_last.op = "grow" /\ mem_last.err = "" /\ mem_last.ret = 0 - 1
    /\ mem_last.arg = u64_MAX /\ mem_last.pages > 0
    /\ Pages(memory) = mem_last.pages

\* the bytes of a buffer outside [a, a + len)
Outside(m, a, len) == {p \in m.nz : p[1] < a \/ p[1] >= a + len}

\* offset + len is within the len bytes of the buffer
WithinBounds(m, offset, len) ==
    /\ add_carry(offset, u64(len)) = 0
    /\ ~gt(wrapping_add(offset, u64(len)), u64(m.len))

\* C12: a write(offset, bytes) with offset + length within the bounds of the
\* memory returns and leaves the size and every byte outside
\* [offset, offset + length) as they were, and the read(offset, length) made
\* right after it returns exactly bytes.
C12_ReadsWritten ==
    (mem_last.op = "read" /\ mem_last.written # <<>>) =>
        (mem_last.err = "" /\ mem_last.out = mem_last.written)

C12_Step ==
    (/\ mem_last'.op = "write"
     /\ VectorMemory_size(memory).err = ""
     /\ WithinBounds(memory, mem_last'.arg, Len(mem_last'.data)))
    => /\ mem_last'.err = ""
       /\ memory'.len = memory.len
       /\ Outside(memory', int(mem_last'.arg), Len(mem_last'.data))
              = Outside(memory, int(mem_last'.arg), Len(mem_last'.data))

C12_RoundTrip == []C12_ReadsWritten /\ [][C12_Step]_vars

\* a read into a zeroed buffer returned the two bytes written just before it
\* across the end of the first page
C12_Witness ==
    /\ mem_last.op = "read" /\ mem_last.err = ""
    /\ mem_last.written = <<2, 3>> /\ mem_last.out = <<2, 3>>
    /\ mem_last.data = <<0, 0>> /\ mem_last.arg = u64(65535)

\* C13: exists("main.db") is false on the resource as it is created, and it
\* is true right after a write_all_at that has returned with offset +
\* len(bytes) above the logical size before the call, hence above 0.
C13_Existence ==
    /\ mem_last.op = "new" => exists(memory, "main.db") = Out(memory, FALSE, "")
    /\ (/\ mem_last.op = "write_all_at" /\ mem_last.err = ""
        /\ gt(wrapping_add(mem_last.arg, u64(Len(mem_last.data))), mem_last.size))
       => exists(memory, "main.db") = Out(memory, TRUE, "")

\* every connection but c is at None
OthersAtNone(c) == \A d \in Conns \ {c} : lock[d] = "None"

NoContentionSteps ==
    {<<"None", "Shared">>, <<"Shared", "Reserved">>,
     <<"Reserved", "Exclusive">>, <<"Exclusive", "None">>}

\* C14: with every other connection at None, each of the requests None to
\* Shared, Shared to Reserved, Reserved to Exclusive and Exclusive to None
\* returns true and leaves the connection at the level asked for, and after
\* the last of them readers = 0 and writerIntent = none.
C14_NoContention ==
    (/\ IsRequest(last) /\ OthersAtNone(last.conn)
     /\ <<last.from, last.to>> \in NoContentionSteps)
    => /\ Returned(last, TRUE)
       /\ lock[last.conn] = last.to
       /\ last.to = "None" => lock_state = [read |-> 0, write |-> OptNone]

\* the connection that went up to Exclusive alone has released it
C14_Witness ==
    /\ IsRequest(last) /\ OthersAtNone(last.conn) /\ Returned(last, TRUE)
    /\ last.from = "Exclusive" /\ last.to = "None"
    /\ last.pre = [read |-> 0, write |-> Some(TRUE)]
    /\ lock[last.conn] = "None"
    /\ lock_state = [read |-> 0, write |-> OptNone]

\* a connection's level becomes Pending only by its own request for
\* Exclusive that returns false with readers remaining
C15_Step ==
    \A c \in Conns :
        (lock'[c] = "Pending" /\ lock[c] # "Pending") =>
            /\ last'.conn = c /\ last'.op \in {"lock", "unlock"}
            /\ last'.to = "Exclusive" /\ Returned(last', FALSE)
            /\ lock_state'.read > 0

C15_Unchanged == lock[last.conn] = last.from /\ lock_state = last.pre

\* C15 as claimed: a request for Pending returns false from every level and
\* changes nothing.
C15_AlwaysRefused ==
    (IsRequest(last) /\ last.to = "Pending") =>
        (Returned(last, FALSE) /\ C15_Unchanged)

C15_Original == []C15_AlwaysRefused /\ [][C15_Step]_vars

\* C15: a request for Pending changes neither the connection's level nor the
\* Lock State; it returns false from every level but Pending and true from
\* Pending itself; a level becomes Pending only as the outcome of a request
\* for Exclusive that returns false because readers remain.
C15_Refused ==
    (IsRequest(last) /\ last.to = "Pending") =>
        /\ C15_Unchanged
        /\ last.from # "Pending" => Returned(last, FALSE)
        /\ last.from = "Pending" => Returned(last, TRUE)

C15_PendingNotRequestable == []C15_Refused /\ [][C15_Step]_vars

\* a reader's request for Pending was refused while another connection is at
\* Pending, where its request for Exclusive left it
C15_Witness ==
    /\ IsRequest(last) /\ last.to = "Pending" /\ last.from = "Shared"
    /\ Returned(last, FALSE) /\ C15_Unchanged
    /\ \E d \in live \ {last.conn} : lock[d] = "Pending"
    /\ lock_state.read > 0 /\ lock_state.write = Some(TRUE)

\* set_len(size) needs growth and the grow it asks for exceeds MAX_PAGES
GrowthFails(m, size) ==
    LET capacity == set_len_capacity(m).val IN
    /\ gt(size, capacity)
    /\ ExceedsMaxPages(Pages(m), f64_ceil_div_page(wrapping_sub(size, capacity)))

\* C16: a set_len(newSize) that needs growth while grow fails reports the
\* out-of-memory error, and a set_len that reports it leaves the memory (the
\* size in pages, the header and the payload) as it was.
C16_Step ==
    mem_last'.op = "set_len" =>
        /\ (VectorMemory_size(memory).err = "" /\ GrowthFails(memory, mem_last'.arg))
               => mem_last'.err = "OutOfMemory"
        /\ mem_last'.err = "OutOfMemory" => memory' = memory

C16_SetLenOutOfMemory == [][C16_Step]_vars

\* set_len(u64::MAX) reported out of memory on a file of one page or more
\* with a header, and the pages and the header are as before
C16_Witness ==
    /\ mem_last.op = "set_len" /\ mem_last.err = "OutOfMemory"
    /\ mem_last.arg = u64_MAX
    /\ mem_last.pages > 0 /\ Pages(memory) = mem_last.pages
    /\ gt(mem_last.size, u64(0)) /\ db_size(memory).val = mem_last.size

\* C17: reserved() on any connection returns true exactly when some
\* connection of the Lock State, the caller or another, is above Shared, and
\* the call changes no connection's level and not the Lock State.
C17_Answer ==
    last.op = "reserved" =>
        /\ Returned(last, AboveShared # {})
        /\ lock[last.conn] = last.from /\ lock_state = last.pre

C17_Step == last'.op = "reserved" => (lock' = lock /\ lock_state' = lock_state)

C17_ReservedAnswer == []C17_Answer /\ [][C17_Step]_vars

\* a reader was told true while another connection holds Reserved
C17_Witness ==
    /\ last.op = "reserved" /\ Returned(last, TRUE)
    /\ lock[last.conn] = "Shared"
    /\ \E d \in live \ {last.conn} : lock[d] = "Reserved"

\* C18: a request for Exclusive by a connection at None or Shared, made
\* while another connection is above Shared (at Reserved as well as at
\* Pending or Exclusive), returns false and leaves the connection's level,
\* readers and writerIntent as they were.
C18_ExclusiveRefused ==
    (/\ IsRequest(last) /\ last.to = "Exclusive"
     /\ last.from \in {"None", "Shared"}
     /\ AboveShared \ {last.conn} # {})
    => /\ Returned(last, FALSE)
       /\ lock[last.conn] = last.from
       /\ lock_state = last.pre

\* B at Shared asked for Exclusive while A holds Reserved
C18_Witness ==
    /\ IsRequest(last) /\ last.to = "Exclusive" /\ last.from = "Shared"
    /\ Returned(last, FALSE)
    /\ lock[last.conn] = "Shared"
    /\ \E d \in live \ {last.conn} : lock[d] = "Reserved"
    /\ lock_state = [read |-> 1, write |-> Some(FALSE)]
    /\ last.pre = lock_state

\* the connections holding the exclusive intent
IntentHolders == {c \in Conns : lock[c] \in {"Pending", "Exclusive"}}

\* C19: while writerIntent is exclusive no connection at None becomes Shared
\* (its request returns false and changes nothing), and readers does not rise
\* in any step in which the intent holder stays at Pending or Exclusive.
C19_Step ==
    lock_state.write = Some(TRUE) =>
        /\ \A c \in Conns : lock[c] = "None" => lock'[c] # "Shared"
        /\ (/\ IsRequest(last') /\ last'.from = "None" /\ last'.to = "Shared")
               => (Returned(last', FALSE) /\ lock_state' = lock_state)
        /\ (\A c \in IntentHolders : lock'[c] \in {"Pending", "Exclusive"})
               => lock_state'.read <= lock_state.read

C19_NoNewReaders == [][C19_Step]_vars

\* a connection at None was refused Shared while another waits at Pending
C19_Witness ==
    /\ IsRequest(last) /\ last.from = "None" /\ last.to = "Shared"
    /\ Returned(last, FALSE) /\ lock[last.conn] = "None"
    /\ last.pre.write = Some(TRUE) /\ lock_state = last.pre
    /\ \E d \in live \ {last.conn} : lock[d] = "Pending"
    /\ lock_state.read > 0

\* C20: a lock or unlock request that returns false leaves the connection's
\* level, readers and writerIntent as they were, unless it is a request for
\* Exclusive that ends at Pending; and a request by one connection changes
\* no other connection's level.
C20_RefusedUnchanged ==
    (/\ IsRequest(last) /\ Returned(last, FALSE)
     /\ ~(last.to = "Exclusive" /\ lock[last.conn] = "Pending"))
    => (lock[last.conn] = last.from /\ lock_state = last.pre)

C20_Step ==
    IsRequest(last') =>
        \A c \in Conns \ {last'.conn} : lock'[c] = lock[c]

C20_FalseIsNoOp == []C20_RefusedUnchanged /\ [][C20_Step]_vars

\* a reader's request for Reserved was refused while another connection
\* holds Reserved, and nothing changed
C20_Witness ==
    /\ IsRequest(last) /\ Returned(last, FALSE)
    /\ last.from = "Shared" /\ last.to = "Reserved"
    /\ lock[last.conn] = "Shared" /\ lock_state = last.pre
    /\ last.pre.write = Some(FALSE)
    /\ \E d \in live \ {last.conn} : lock[d] = "Reserved"

====
